---- MODULE Spec2Model ----
(***************************************************************************)
(* Document storage and delivery service of yy710/mind:                    *)
(*   scripts/unified-server.js  (Express server: build, static, API)       *)
(*   scripts/mock-upload-server.js  (plain http server: API only)          *)
(*                                                                         *)
(* A JavaScript string is a sequence of one-character strings (paths,      *)
(* names) or a sequence of UTF-16 code units (document content); a file    *)
(* holds a sequence of bytes.  node's posix `path` functions are written   *)
(* out as they compute, on characters and segments.                        *)
(***************************************************************************)
EXTENDS Integers, Sequences, FiniteSets, Bags, TLC

VARIABLES
    srv,        \* which script runs: "unified" or "mock"
    REQ_TOKEN,  \* process.env.UPLOAD_TOKEN / MOCK_TOKEN, "" when unset
    fs,         \* the host filesystem: [dirs, files]
    inflight,   \* bag of requests suspended at an await
    last,       \* the request answered by the latest step, with its response
    budget,     \* requests that may still pass their synchronous checks
    rt,         \* history: latest upload whose write is still the newest on its target
    stored,     \* history: uploads answered 200, their number and their targets
    gp,         \* path guard study: the candidate path
    gres,       \* path guard study: result of isPathInside(BASE_DIR, gp)
    boot        \* startup study: state of main() before/after listen

vars == <<srv, REQ_TOKEN, fs, inflight, last, budget, rt, stored, gp, gres, boot>>

----------------------------------------------------------------------------
(* Bounds *)

MaxSegs == 3    \* segments of a candidate path in the path guard study
MaxUploads == 2 \* uploads that pass their synchronous checks
MaxConns == 2   \* connection attempts counted in the startup study
MaxAdmitted == 3   \* requests that suspend where handlers interleave
MaxLists == 1   \* list requests that walk a storage root found at startup

----------------------------------------------------------------------------
(* Strings *)

SLASH == "/"
DOT == "."

StartsWith(s, pre) ==
    /\ Len(s) >= Len(pre)
    /\ SubSeq(s, 1, Len(pre)) = pre

EndsWith(s, suf) ==
    /\ Len(s) >= Len(suf)
    /\ SubSeq(s, Len(s) - Len(suf) + 1, Len(s)) = suf

RECURSIVE Split(_)
\* s.split('/'): the pieces between slashes, empty pieces included
Split(s) ==
    IF \A i \in 1..Len(s) : s[i] # SLASH
    THEN <<s>>
    ELSE LET i == CHOOSE k \in 1..Len(s) :
                      /\ s[k] = SLASH
                      /\ \A j \in 1..(k-1) : s[j] # SLASH
         IN  <<SubSeq(s, 1, i-1)>> \o Split(SubSeq(s, i+1, Len(s)))

RECURSIVE JoinSegs(_)
\* segs.join('/')
JoinSegs(segs) ==
    IF segs = <<>> THEN <<>>
    ELSE IF Len(segs) = 1 THEN segs[1]
    ELSE segs[1] \o <<SLASH>> \o JoinSegs(Tail(segs))

RECURSIVE StripLeadingSlashes(_)
\* s.replace(/^\/+/, '')
StripLeadingSlashes(s) ==
    IF s # <<>> /\ s[1] = SLASH THEN StripLeadingSlashes(Tail(s)) ELSE s

----------------------------------------------------------------------------
(* node path (posix) *)

CWD == <<"/", "w">>

RECURSIVE NormSegs(_, _, _)
\* normalizeString: drop "" and ".", let ".." cancel the segment before it
NormSegs(segs, allowAboveRoot, res) ==
    IF segs = <<>> THEN res
    ELSE LET s == Head(segs)
             r == IF s = <<>> \/ s = <<DOT>> THEN res
                  ELSE IF s = <<DOT, DOT>>
                       THEN IF res # <<>> /\ res[Len(res)] # <<DOT, DOT>>
                            THEN SubSeq(res, 1, Len(res) - 1)
                            ELSE IF allowAboveRoot THEN Append(res, s) ELSE res
                       ELSE Append(res, s)
         IN  NormSegs(Tail(segs), allowAboveRoot, r)

isAbsolute(p) == Len(p) > 0 /\ p[1] = SLASH

RECURSIVE ResolveJoin(_, _)
\* the right-to-left loop of path.resolve: prepend arguments until one is absolute
ResolveJoin(args, acc) ==
    IF isAbsolute(acc) THEN acc
    ELSE IF args = <<>> THEN CWD \o <<SLASH>> \o acc
    ELSE LET a == args[Len(args)]
             rest == SubSeq(args, 1, Len(args) - 1)
         IN  IF a = <<>> THEN ResolveJoin(rest, acc)
             ELSE ResolveJoin(rest, a \o <<SLASH>> \o acc)

resolve(args) ==
    <<SLASH>> \o JoinSegs(NormSegs(Split(ResolveJoin(args, <<>>)), FALSE, <<>>))

\* segments of an absolute normalized path
AbsSegs(p) == NormSegs(Split(p), FALSE, <<>>)

RECURSIVE CommonLen(_, _)
CommonLen(a, b) ==
    IF a = <<>> \/ b = <<>> \/ Head(a) # Head(b) THEN 0
    ELSE 1 + CommonLen(Tail(a), Tail(b))

relative(from, to) ==
    LET f == AbsSegs(resolve(<<from>>))
        t == AbsSegs(resolve(<<to>>))
        c == CommonLen(f, t)
        ups == [i \in 1..(Len(f) - c) |-> <<DOT, DOT>>]
    IN  JoinSegs(ups \o SubSeq(t, c + 1, Len(t)))

basename(p) ==
    IF \A i \in 1..Len(p) : p[i] = SLASH THEN <<>>
    ELSE LET e == CHOOSE k \in 1..Len(p) :
                      /\ p[k] # SLASH
                      /\ \A j \in (k+1)..Len(p) : p[j] = SLASH
             slashes == {k \in 1..(e-1) : p[k] = SLASH}
             st == IF slashes = {} THEN 0
                   ELSE CHOOSE k \in slashes : \A j \in slashes : j <= k
         IN  SubSeq(p, st + 1, e)

dirname(p) ==
    IF p = <<>> THEN <<DOT>>
    ELSE LET ends == {i \in 2..Len(p) :
                         /\ p[i] = SLASH
                         /\ \E j \in (i+1)..Len(p) : p[j] # SLASH}
         IN  IF ends = {} THEN (IF p[1] = SLASH THEN <<SLASH>> ELSE <<DOT>>)
             ELSE LET i == CHOOSE k \in ends : \A j \in ends : j <= k
                  IN  IF p[1] = SLASH /\ i = 2 THEN <<SLASH, SLASH>>
                      ELSE SubSeq(p, 1, i - 1)

\* path.join(dir, name)
join(a, b) ==
    LET joined == IF a = <<>> THEN b
                  ELSE IF b = <<>> THEN a
                  ELSE a \o <<SLASH>> \o b
        abs == isAbsolute(joined)
        body == JoinSegs(NormSegs(Split(joined), ~abs, <<>>))
        trail == joined # <<>> /\ joined[Len(joined)] = SLASH
    IN  IF joined = <<>> THEN <<DOT>>
        ELSE IF body = <<>> THEN (IF abs THEN <<SLASH>> ELSE <<DOT>>)
        ELSE (IF abs THEN <<SLASH>> ELSE <<>>) \o body
             \o (IF trail THEN <<SLASH>> ELSE <<>>)

----------------------------------------------------------------------------
(* Path guard *)

BASE_DIR == <<"/", "r">>

\* the guard without its test for a relative path that climbs
isPathInsideAnyRelative(parent, child) ==
    LET rel == relative(parent, child)
    IN  rel # <<>> /\ ~isAbsolute(rel)

isPathInside(parent, child) ==
    LET rel == relative(parent, child)
    IN  /\ rel # <<>>
        /\ ~StartsWith(rel, <<DOT, DOT>>)
        /\ ~isAbsolute(rel)

\* p, made absolute and normalized, lies strictly below root
IsStrictDescendant(root, p) ==
    LET r == AbsSegs(resolve(<<root>>))
        c == AbsSegs(resolve(<<p>>))
    IN  /\ Len(c) > Len(r)
        /\ SubSeq(c, 1, Len(r)) = r

----------------------------------------------------------------------------
(* JavaScript values of a parsed JSON body *)

Undef == [t |-> "undef"]
Str(s) == [t |-> "str", v |-> s]
Num(n) == [t |-> "num", v |-> n]

Truthy(x) ==
    \/ x.t = "str" /\ x.v # <<>>
    \/ x.t = "num" /\ x.v # 0

\* x || ''
OrEmpty(x) == IF Truthy(x) THEN x ELSE Str(<<>>)

\* String(x) for the values x || '' can yield here
JsString(x) == IF x.t = "str" THEN x.v ELSE <<>>

----------------------------------------------------------------------------
(* UTF-8, as writeFile(.., 'utf8'), readFile(.., 'utf8') and               *)
(* Buffer.byteLength(.., 'utf8') convert between code units and bytes      *)

IsHigh(u) == u >= 55296 /\ u <= 56319
IsLow(u) == u >= 56320 /\ u <= 57343
IsCont(b) == b >= 128 /\ b <= 191

RECURSIVE utf8Encode(_)
utf8Encode(us) ==
    IF us = <<>> THEN <<>>
    ELSE LET u == Head(us)
         IN  IF u < 128 THEN <<u>> \o utf8Encode(Tail(us))
             ELSE IF u < 2048
             THEN <<192 + (u \div 64), 128 + (u % 64)>> \o utf8Encode(Tail(us))
             ELSE IF IsHigh(u) /\ Len(us) >= 2 /\ IsLow(us[2])
             THEN LET cp == 65536 + (u - 55296) * 1024 + (us[2] - 56320)
                  IN  <<240 + (cp \div 262144), 128 + ((cp \div 4096) % 64),
                        128 + ((cp \div 64) % 64), 128 + (cp % 64)>>
                      \o utf8Encode(Tail(Tail(us)))
             ELSE IF IsHigh(u) \/ IsLow(u)
             THEN <<239, 191, 189>> \o utf8Encode(Tail(us))
             ELSE <<224 + (u \div 4096), 128 + ((u \div 64) % 64), 128 + (u % 64)>>
                  \o utf8Encode(Tail(us))

\* bytes a lead byte announces, 0 for a byte that cannot lead
SeqLen(b) ==
    IF b < 128 THEN 1
    ELSE IF b >= 194 /\ b <= 223 THEN 2
    ELSE IF b >= 224 /\ b <= 239 THEN 3
    ELSE IF b >= 240 /\ b <= 244 THEN 4
    ELSE 0

\* range of the byte after the lead byte
SecondOk(lead, b) ==
    IF lead = 224 THEN b >= 160 /\ b <= 191
    ELSE IF lead = 237 THEN b >= 128 /\ b <= 159
    ELSE IF lead = 240 THEN b >= 144 /\ b <= 191
    ELSE IF lead = 244 THEN b >= 128 /\ b <= 143
    ELSE IsCont(b)

RECURSIVE ContRun(_, _, _)
\* how many of the next `want` bytes continue the sequence led by bs[1]
ContRun(bs, k, want) ==
    IF k > want \/ Len(bs) < k + 1 THEN k - 1
    ELSE IF (IF k = 1 THEN SecondOk(bs[1], bs[2]) ELSE IsCont(bs[k + 1]))
         THEN ContRun(bs, k + 1, want)
         ELSE k - 1

RECURSIVE utf8Decode(_)
utf8Decode(bs) ==
    IF bs = <<>> THEN <<>>
    ELSE LET b == Head(bs)
             n == SeqLen(b)
             k == IF n <= 1 THEN 0 ELSE ContRun(bs, 1, n - 1)
             rest == SubSeq(bs, k + 2, Len(bs))
         IN  IF n = 1 THEN <<b>> \o utf8Decode(Tail(bs))
             ELSE IF n = 0 \/ k < n - 1 THEN <<65533>> \o utf8Decode(rest)
             ELSE IF n = 2
             THEN <<(b - 192) * 64 + (bs[2] - 128)>> \o utf8Decode(rest)
             ELSE IF n = 3
             THEN <<(b - 224) * 4096 + (bs[2] - 128) * 64 + (bs[3] - 128)>>
                  \o utf8Decode(rest)
             ELSE LET cp == (b - 240) * 262144 + (bs[2] - 128) * 4096
                            + (bs[3] - 128) * 64 + (bs[4] - 128)
                  IN  <<55296 + ((cp - 65536) \div 1024),
                        56320 + ((cp - 65536) % 1024)>> \o utf8Decode(rest)

----------------------------------------------------------------------------
(* The filesystem: directories, and regular files with their bytes *)

RECURSIVE PathsTo(_)
\* the directory paths mkdir -p walks to reach the path with these segments
PathsTo(segs) ==
    IF segs = <<>> THEN {<<SLASH>>}
    ELSE {<<SLASH>> \o JoinSegs(segs)} \cup PathsTo(SubSeq(segs, 1, Len(segs) - 1))

IsFile(f, p) == p \in DOMAIN f.files
IsDir(f, p) == p \in f.dirs

\* fsp.mkdir(p, {recursive: true})
MkdirOk(f, p) == \A q \in PathsTo(AbsSegs(p)) : ~IsFile(f, q)

\* a mkdir that leaves the directory empty
MkdirFresh(f, p) ==
    [f EXCEPT
       !.dirs = @ \cup PathsTo(AbsSegs(p)),
       !.files = [q \in {x \in DOMAIN @ : ~IsStrictDescendant(p, x)} |-> @[q]]]

Mkdir(f, p) == [f EXCEPT !.dirs = @ \cup PathsTo(AbsSegs(p))]

\* open(p, 'w'): create or truncate
OpenOk(f, p) == ~IsDir(f, p) /\ IsDir(f, dirname(p))
\* an open that creates the file but keeps the bytes of an existing one
OpenKeep(f, p) ==
    IF IsFile(f, p) THEN f
    ELSE [f EXCEPT !.files = (p :> <<>>) @@ [q \in DOMAIN @ |-> @[q]]]

OpenTrunc(f, p) ==
    [f EXCEPT !.files = (p :> <<>>) @@ [q \in DOMAIN @ \ {p} |-> @[q]]]

\* a write that stores nothing
WriteNothing(f, p, bytes) == f

\* write(fd, bytes) at the start of a freshly opened descriptor
WriteAt0(f, p, bytes) ==
    LET old == f.files[p]
        new == bytes \o SubSeq(old, Len(bytes) + 1, Len(old))
    IN  [f EXCEPT !.files = (p :> new) @@ [q \in DOMAIN @ \ {p} |-> @[q]]]

RECURSIVE Real(_, _)
\* the path p with the symbolic links on its way followed, as the system
\* calls that take a path resolve it
Real(f, p) ==
    LET on == {q \in DOMAIN f.links : q = p \/ StartsWith(p, q \o <<SLASH>>)}
    IN  IF on = {} THEN p
        ELSE LET q == CHOOSE x \in on : \A y \in on : Len(x) <= Len(y)
             IN  Real(f, f.links[q] \o SubSeq(p, Len(q) + 1, Len(p)))

\* a directory entry typed as stat types it, links followed
DirentFollowed(f, q) ==
    [name |-> basename(q), isDir |-> IsDir(f, Real(f, q)),
     isFile |-> IsFile(f, Real(f, q))]

\* the fs.Dirent of the path q: the type of the entry itself, so that a
\* symbolic link is neither a directory nor a file
Dirent(f, q) ==
    [name |-> basename(q), isDir |-> IsDir(f, q), isFile |-> IsFile(f, q)]

\* fsp.readdir(d, {withFileTypes: true})
Readdir(f, d) ==
    {Dirent(f, q) :
        q \in {x \in (f.dirs \cup DOMAIN f.files \cup DOMAIN f.links) :
                  x # <<SLASH>> /\ dirname(x) = Real(f, d)}}

----------------------------------------------------------------------------
(* Access control *)

\* `Bearer ${REQ_TOKEN}`
Expected(token) == "Bearer " \o token

\* authCheck of the unified server, the inline check of the mock server
\* a check that compares the header even when no token is configured
authCheckAlways(token, auth) == auth = Expected(token)

\* a check that is content with any Authorization header
authCheckAnyHeader(token, auth) == token = "" \/ auth # ""

authCheck(token, auth) ==
    IF token = "" THEN TRUE ELSE auth = Expected(token)

----------------------------------------------------------------------------
(* Requests and responses *)

Pass == [status |-> -1]

NoRequest == [route |-> "none"]
NoUpload == [valid |-> FALSE]
NoUploads == [targets |-> {}]
EmptyFs == [dirs |-> {}, files |-> <<>>, links |-> <<>>]

Err(status, error) == [status |-> status, error |-> error, json |-> TRUE]

\* the unified server: express.json() runs on every request before the
\* route, then the route calls authCheck
UnifiedPre(token, req) ==
    IF req.body = "malformed"
    THEN [status |-> 400, error |-> "body-parser", json |-> FALSE]
    ELSE IF req.body = "oversized"
    THEN [status |-> 413, error |-> "body-parser", json |-> FALSE]
    ELSE IF ~authCheck(token, req.auth) THEN Err(401, "Unauthorized")
    ELSE Pass

\* the mock server's handleUpload: the token, then the body as it arrives
MockUploadPre(token, req) ==
    IF ~authCheck(token, req.auth) THEN Err(401, "Unauthorized")
    ELSE IF req.body = "oversized"
    THEN [status |-> 0, error |-> "destroyed", json |-> FALSE]
    ELSE IF req.body = "malformed" THEN Err(400, "Invalid JSON")
    ELSE Pass

\* the mock server's handleListFiles and handleReadFile never read the body
MockGetPre(token, req) ==
    IF ~authCheck(token, req.auth) THEN Err(401, "Unauthorized") ELSE Pass

Pre(server, token, req) ==
    IF server = "unified" THEN UnifiedPre(token, req)
    ELSE IF req.route = "upload" THEN MockUploadPre(token, req)
    ELSE MockGetPre(token, req)

EXT == <<".", "d", "r", "a", "w", "n", "i", "x">>

\* the filename taken whole
safeNameWhole(filename) == JsString(filename)

safeName(filename) == basename(JsString(filename))

targetDir(dir) ==
    resolve(<<BASE_DIR, IF Truthy(dir) THEN JsString(dir) ELSE <<>>>>)

targetPath(filename, dir) == resolve(<<targetDir(dir), safeName(filename)>>)

\* a check of the target directory in place of the target path
UploadGuardDir(tdir, tpath) == tdir = BASE_DIR \/ isPathInside(BASE_DIR, tdir)

\* the containment check of the upload route
UploadGuard(tdir, tpath) == isPathInside(BASE_DIR, tpath)

\* the checks of the upload route between the body and the first await
UploadChecks(req) ==
    LET filename == OrEmpty(req.filename)
        dir == OrEmpty(req.dir)
    IN  IF ~Truthy(filename) \/ filename.t # "str"
        THEN Err(400, "filename required")
        ELSE IF ~UploadGuard(targetDir(dir), targetPath(filename, dir))
        THEN Err(400, "Invalid path")
        ELSE Pass

\* String(req.query.path || '').replace(/^\/+/, '')
ReadRel(path) == StripLeadingSlashes(JsString(OrEmpty(path)))

ReadAbs(rel) == resolve(<<BASE_DIR, rel>>)

\* the containment check of the read route
ReadGuard(abs) == isPathInside(BASE_DIR, abs)

\* the checks of the read route without the test for an empty path
ReadChecksNoEmpty(req) ==
    IF ~ReadGuard(ReadAbs(ReadRel(req.path))) THEN Err(400, "Invalid path") ELSE Pass

\* the checks of the read route before readFile
ReadChecks(req) ==
    LET rel == ReadRel(req.path)
    IN  IF rel = <<>> THEN Err(400, "path required")
        ELSE IF ~ReadGuard(ReadAbs(rel)) THEN Err(400, "Invalid path")
        ELSE Pass

\* one element of the files array of a list response
FileEntry(f, abs) ==
    LET rel == relative(BASE_DIR, abs)
    IN  [name |-> basename(abs),
         relativePath |-> rel,
         dir |-> IF dirname(rel) = <<DOT>> THEN <<>> ELSE dirname(rel),
         size |-> Len(f.files[Real(f, abs)])]

\* a loop that does not descend into directories
RelevantFiles(entries) == {e \in entries : e.isFile /\ EndsWith(e.name, EXT)}

\* the entries of a directory that the loop of listDrawnixFiles acts on
Relevant(entries) ==
    {e \in entries : e.isDir \/ (e.isFile /\ EndsWith(e.name, EXT))}

RECURSIVE PopDone(_)
\* return from every listDrawnixFiles call whose loop has ended
PopDone(stack) ==
    IF stack # <<>> /\ stack[Len(stack)].todo = {}
    THEN PopDone(SubSeq(stack, 1, Len(stack) - 1))
    ELSE stack

----------------------------------------------------------------------------
(* Bag of suspended requests *)

Swap(b, old, new) == (b (-) SetToBag({old})) (+) SetToBag({new})

Suspended == BagToSet(inflight)

----------------------------------------------------------------------------
(* The handlers after their synchronous checks, one filesystem call at a   *)
(* time.  A suspended request r carries its locals; a step returns the     *)
(* filesystem, the request and whether the response has been sent.         *)

Called(r, op, path) == [r EXCEPT !.io = Append(@, [op |-> op, path |-> path])]

Going(f, r) == [f |-> f, r |-> r, fin |-> FALSE]

Ended(f, r, resp) == [f |-> f, r |-> resp @@ [r EXCEPT !.pc = "done"], fin |-> TRUE]

\* POST /upload from `await ensureDir(targetDir)` on
UploadStep(f, r) ==
    IF r.pc = "ensureDir"
    THEN LET r2 == Called(r, "mkdir", r.targetDir)
         IN  IF MkdirOk(f, r.targetDir)
             THEN Going(Mkdir(f, r.targetDir), [r2 EXCEPT !.pc = "open"])
             ELSE Ended(f, r2, Err(500, "Write failed"))
    ELSE IF r.pc = "open"
    THEN LET r2 == Called(r, "open", r.targetPath)
         IN  IF OpenOk(f, r.targetPath)
             THEN Going(OpenTrunc(f, r.targetPath), [r2 EXCEPT !.pc = "write"])
             ELSE Ended(f, r2, Err(500, "Write failed"))
    ELSE IF r.pc = "write"
    THEN Going(WriteAt0(f, r.targetPath, utf8Encode(JsString(r.content))),
               [Called(r, "write", r.targetPath) EXCEPT !.pc = "written"])
    ELSE Ended(f, r, [status |-> 200, json |-> TRUE, path |-> r.targetPath,
                      size |-> Len(utf8Encode(JsString(r.content)))])

\* GET /file from `await fsp.readFile(abs, 'utf8')` on
ReadStep(f, r) ==
    LET r2 == Called(r, "readFile", r.abs)
    IN  IF IsFile(f, r.abs)
        THEN Ended(f, r2, [status |-> 200, json |-> TRUE, name |-> basename(r.abs),
                           relativePath |-> r.rel,
                           content |-> utf8Decode(f.files[r.abs])])
        ELSE Ended(f, r2, Err(404, "Not Found"))

\* the walk goes on with its stack, or the route answers with the files
ListContinue(f, r) ==
    IF r.stack = <<>>
    THEN Ended(f, r, [status |-> 200, json |-> TRUE])
    ELSE Going(f, r)

\* GET /files from `await ensureDir(BASE_DIR)` on; e is the entry the loop
\* of listDrawnixFiles reaches next: a directory (the nested call and its
\* readdir) or a document (its stat)
ListStep(f, r, e) ==
    IF r.pc = "ensureDir"
    THEN LET r2 == Called(r, "mkdir", BASE_DIR)
         IN  IF MkdirOk(f, BASE_DIR)
             THEN Going(Mkdir(f, BASE_DIR), [r2 EXCEPT !.pc = "readdir"])
             ELSE Ended(f, r2, Err(500, "List failed"))
    ELSE IF r.pc = "readdir"
    THEN ListContinue(f,
             [Called(r, "readdir", BASE_DIR) EXCEPT
                 !.pc = "walk",
                 !.stack = PopDone(<<[dir |-> BASE_DIR,
                                      todo |-> Relevant(Readdir(f, BASE_DIR))]>>)])
    ELSE LET n == Len(r.stack)
             abs == join(r.stack[n].dir, e.name)
             rest == [r.stack EXCEPT ![n].todo = @ \ {e}]
         IN  IF e.isDir
             THEN ListContinue(f,
                      [Called(r, "readdir", abs) EXCEPT
                          !.stack = PopDone(Append(rest,
                              [dir |-> abs, todo |-> Relevant(Readdir(f, abs))]))])
             ELSE ListContinue(f,
                      [Called(r, "stat", abs) EXCEPT
                          !.files = Append(@, FileEntry(f, abs)),
                          !.stack = PopDone(rest)])

NoEntry == [name |-> <<>>, isDir |-> FALSE, isFile |-> FALSE]

\* the entries the loop of a suspended list may reach next, in readdir's order
Choices(r) ==
    IF r.route = "list" /\ r.pc = "walk" THEN r.stack[Len(r.stack)].todo
    ELSE {NoEntry}

Step(f, r, e) ==
    IF r.route = "upload" THEN UploadStep(f, r)
    ELSE IF r.route = "read" THEN ReadStep(f, r)
    ELSE ListStep(f, r, e)

RECURSIVE Run(_, _), RunOn(_)
\* a handler running with no other request in between
Run(f, r) == RunOn(Step(f, r, CHOOSE e \in Choices(r) : TRUE))

RunOn(s) == IF s.fin THEN s ELSE Run(s.f, s.r)

----------------------------------------------------------------------------
(* The handlers up to their first await *)

Exact(token, auth) == auth = "Bearer " \o token

\* what a response of the synchronous part keeps of its request
SyncView(token, req) ==
    IF req.route = "read"
    THEN [route |-> "read", exact |-> Exact(token, req.auth), body |-> req.body,
          rel |-> ReadRel(req.path), io |-> <<>>]
    ELSE [route |-> req.route, exact |-> Exact(token, req.auth),
          body |-> req.body, io |-> <<>>]

\* the locals of a request suspended at its first await
UploadLocals(token, req) ==
    [route |-> "upload", exact |-> Exact(token, req.auth),
     filename |-> OrEmpty(req.filename), dir |-> OrEmpty(req.dir),
     content |-> OrEmpty(req.content),
     targetDir |-> targetDir(OrEmpty(req.dir)),
     targetPath |-> targetPath(OrEmpty(req.filename), OrEmpty(req.dir)),
     pc |-> "ensureDir", io |-> <<>>]

ReadLocals(token, req) ==
    [route |-> "read", exact |-> Exact(token, req.auth),
     rel |-> ReadRel(req.path), abs |-> ReadAbs(ReadRel(req.path)),
     pc |-> "readFile", io |-> <<>>]

ListLocals(token, req) ==
    [route |-> "list", exact |-> Exact(token, req.auth),
     stack |-> <<>>, files |-> <<>>, pc |-> "ensureDir", io |-> <<>>]

\* the response of the synchronous part, or Pass
Sync(server, token, req) ==
    LET pre == Pre(server, token, req)
    IN  IF pre # Pass THEN pre
        ELSE IF req.route = "upload" THEN UploadChecks(req)
        ELSE IF req.route = "read" THEN ReadChecks(req)
        ELSE Pass

\* the candidate path the synchronous part built, <<>> when it built none
Candidate(req) ==
    IF req.route = "upload"
    THEN IF Truthy(OrEmpty(req.filename)) /\ OrEmpty(req.filename).t = "str"
         THEN targetPath(OrEmpty(req.filename), OrEmpty(req.dir))
         ELSE <<>>
    ELSE IF req.route = "read" /\ ReadRel(req.path) # <<>>
    THEN ReadAbs(ReadRel(req.path))
    ELSE <<>>

Locals(token, req) ==
    IF req.route = "upload" THEN UploadLocals(token, req)
    ELSE IF req.route = "read" THEN ReadLocals(token, req)
    ELSE ListLocals(token, req)

----------------------------------------------------------------------------
(* Inputs of the request handlers *)

Tokens == {"", "tok"}
AuthHeaders == {"", "Bearer tok", "Bearer bad", "Basic tok"}
BodyKinds == {"ok", "malformed", "oversized"}

NameA == <<"a">> \o EXT
Passwd == <<".", ".", "/", ".", ".", "/", "e", "t", "c", "/", "p", "a", "s", "s", "w", "d">>

Filenames ==
    {Undef, Str(<<>>), Num(5), Str(NameA), Str(Passwd), Str(<<DOT, DOT>>)}

Dirs ==
    {Undef, Str(<<"d", "/", "e">>), Str(<<DOT, DOT>>),
     Str(BASE_DIR \o <<"/", "d">>)}

\* "", "é", and a lone high surrogate
Contents == {Str(<<>>), Str(<<233>>), Str(<<55357>>)}

\* the path <dir>/<basename(filename)> an upload's sender reads back
ReadBack(filename, dir) ==
    JsString(OrEmpty(dir)) \o <<SLASH>> \o basename(JsString(OrEmpty(filename)))

ReadPaths ==
    {Undef, Str(<<DOT>>), Str(<<".", ".", "/", "s">>), Str(NameA),
     Str(<<SLASH, SLASH>>), Str(<<"d">>)}
    \cup {Str(ReadBack(f, d)) :
            f \in {x \in Filenames : x.t = "str" /\ x.v # <<>>}, d \in Dirs}

UploadRequests ==
    {[route |-> "upload", auth |-> a, body |-> "ok",
      filename |-> f, content |-> c, dir |-> d] :
        a \in AuthHeaders, f \in Filenames, c \in Contents, d \in Dirs}
    \cup {[route |-> "upload", auth |-> a, body |-> k,
           filename |-> Undef, content |-> Undef, dir |-> Undef] :
            a \in AuthHeaders, k \in BodyKinds \ {"ok"}}

ReadRequests ==
    {[route |-> "read", auth |-> a, body |-> k, path |-> q] :
        a \in AuthHeaders, k \in BodyKinds, q \in ReadPaths}

ListRequests ==
    {[route |-> "list", auth |-> a, body |-> k] :
        a \in AuthHeaders, k \in BodyKinds}

Requests == UploadRequests \cup ReadRequests \cup ListRequests

----------------------------------------------------------------------------
(* The serving process, one request at a time *)

\* a storage root, empty, beside a file that is not in it
RootFs ==
    [dirs |-> {<<SLASH>>, BASE_DIR},
     files |-> (<<"/", "s">> :> <<115>>),
     links |-> <<>>]

DIST_DIR == resolve(<<CWD, <<"d">>>>)
INDEX_HTML == join(DIST_DIR, <<"i">>)

\* the bytes of the entry document
IndexBytes == <<60, 105, 62>>

\* the filesystem with and without the entry document
Built(f) ==
    [f EXCEPT
       !.dirs = @ \cup PathsTo(AbsSegs(DIST_DIR)),
       !.files = (INDEX_HTML :> IndexBytes)
                   @@ [q \in DOMAIN @ \ {INDEX_HTML} |-> @[q]]]

Unbuilt(f) ==
    [f EXCEPT !.files = [q \in DOMAIN @ \ {INDEX_HTML} |-> @[q]]]

InitFs == Built(RootFs)

\* main() after app.listen, the frontend found built
Serving ==
    [step |-> 4, building |-> FALSE, builds |-> 0, env |-> Undef, index |-> TRUE,
     status |-> -2, exit |-> -1, listening |-> TRUE, served |-> 0, refused |-> 0]

\* main() after app.listen, after a build that exited 0 and left no index
ServingUnbuilt == [Serving EXCEPT !.index = FALSE, !.builds = 1, !.status = 0]

Init ==
    /\ srv \in {"unified", "mock"}
    /\ REQ_TOKEN \in Tokens
    /\ \E index \in BOOLEAN :
         /\ srv = "mock" => index
         /\ fs = IF index THEN InitFs ELSE Unbuilt(InitFs)
         /\ boot = IF index THEN Serving ELSE ServingUnbuilt
    /\ inflight = EmptyBag
    /\ last = NoRequest
    /\ budget = MaxUploads
    /\ rt = NoUpload
    /\ stored = NoUploads
    /\ gp = <<>>
    /\ gres = "unset"

Config == <<srv, REQ_TOKEN, gp, gres, boot>>

\* the identity of an upload in the history variables
Key(r) == [filename |-> r.filename, dir |-> r.dir, content |-> r.content]

Servers == {"unified", "mock"}

\* the synchronous part of every request of the input sets, evaluated once
\* the CORS headers that send() of the mock server puts on a response
CorsHeaders ==
    [origin |-> "*", headers |-> {"Content-Type", "Authorization"},
     methods |-> {"POST", "GET", "OPTIONS"}]

NoCors == [origin |-> "", headers |-> {}, methods |-> {}]

\* the Access-Control headers of a response: send() sets them, res.json,
\* res.sendFile and the error pages of express set none
Headers(server, resp) ==
    IF server = "mock" /\ resp.status # 0 THEN CorsHeaders ELSE NoCors

Sent(server, resp) == resp @@ [cors |-> Headers(server, resp)]

SyncOf ==
    [server \in Servers, token \in Tokens, req \in Requests |->
        LET resp == Sync(server, token, req)
        IN  IF resp = Pass THEN Pass
            ELSE Sent(server, resp)
                      @@ [cand |-> IF resp.status = 400 /\ resp.json
                                   THEN Candidate(req) ELSE <<>>]
                      @@ SyncView(token, req)]

LocalsOf ==
    [token \in Tokens, req \in Requests |->
        IF \E server \in Servers : Sync(server, token, req) = Pass
        THEN Locals(token, req) ELSE Pass]

\* a request is answered by its synchronous part
Answered(req) ==
    /\ SyncOf[srv, REQ_TOKEN, req] # Pass
    /\ last' = SyncOf[srv, REQ_TOKEN, req]
    /\ UNCHANGED <<fs, inflight, budget, rt, stored>>

\* the response and the effects of a request that ran to its end
Commit(out) ==
    /\ fs' = out.f
    /\ last' = Sent(srv, out.r)
    /\ rt' = IF out.r.route = "upload" /\ out.r.status = 200
             THEN [valid |-> TRUE, done |-> TRUE,
                   targetPath |-> out.r.targetPath, req |-> Key(out.r)]
             ELSE rt
    /\ stored' = IF out.r.route = "upload" /\ out.r.status = 200
                 THEN [targets |-> stored.targets \cup {out.r.targetPath}]
                 ELSE stored

\* a request passes its synchronous part and runs to its response
Handled(req) ==
    /\ SyncOf[srv, REQ_TOKEN, req] = Pass
    /\ IF req.route = "upload"
       THEN budget > 0 /\ budget' = budget - 1
       ELSE budget' = budget
    /\ Commit(Run(fs, LocalsOf[REQ_TOKEN, req]))
    /\ UNCHANGED inflight

\* POST /upload
Upload(req) ==
    /\ boot.listening /\ last = NoRequest
    /\ req.route = "upload"
    /\ Answered(req) \/ Handled(req)
    /\ UNCHANGED Config

\* GET /file?path=
ReadFile(req) ==
    /\ boot.listening /\ last = NoRequest
    /\ req.route = "read"
    /\ Answered(req) \/ Handled(req)
    /\ UNCHANGED Config

\* GET /files
ListFiles(req) ==
    /\ boot.listening /\ last = NoRequest
    /\ req.route = "list"
    /\ Answered(req) \/ Handled(req)
    /\ UNCHANGED Config

OptionsRequests == {[route |-> "options", body |-> k] : k \in BodyKinds}

OtherRequests ==
    {[route |-> "other", method |-> m, body |-> k] :
        m \in {"GET", "POST"}, k \in BodyKinds}

\* express.json on a route without authCheck
ParserPre(req) ==
    IF req.body = "malformed"
    THEN [status |-> 400, json |-> FALSE, error |-> "body-parser"]
    ELSE IF req.body = "oversized"
    THEN [status |-> 413, json |-> FALSE, error |-> "body-parser"]
    ELSE Pass

\* an OPTIONS request: the mock server acknowledges it before it looks at
\* the URL; the router of express answers it with an Allow header
OptionsResponse(server, req) ==
    IF server = "mock" THEN [status |-> 200, json |-> TRUE, ok |-> TRUE]
    ELSE IF ParserPre(req) # Pass THEN ParserPre(req)
    ELSE [status |-> 200, json |-> FALSE, allow |-> {"GET", "HEAD"}]

\* a request that matches no API route and no file of the asset directory:
\* app.get('*') sends INDEX_HTML; the mock server has no such route
OtherResponse(server, req, f) ==
    IF server = "mock" THEN Err(404, "Not Found")
    ELSE IF ParserPre(req) # Pass THEN ParserPre(req)
    ELSE IF req.method = "GET" /\ IsFile(f, INDEX_HTML)
    THEN [status |-> 200, json |-> FALSE, content |-> f.files[INDEX_HTML]]
    ELSE [status |-> 404, json |-> FALSE, error |-> "finalhandler"]

\* a response of a route that does no filesystem write
Reply(req, resp) ==
    /\ last' = Sent(srv, resp) @@ req @@ [exact |-> FALSE, io |-> <<>>]
    /\ UNCHANGED <<fs, inflight, budget, rt, stored>>

\* OPTIONS on any path
Preflight(req) ==
    /\ boot.listening /\ last = NoRequest
    /\ Reply(req, OptionsResponse(srv, req))
    /\ UNCHANGED Config

\* the static routes: express.static, then app.get('*')
Fallback(req) ==
    /\ boot.listening /\ last = NoRequest
    /\ Reply(req, OtherResponse(srv, req, fs))
    /\ UNCHANGED Config

\* the client has the response; the server waits for the next request
Observe ==
    /\ last # NoRequest
    /\ last' = NoRequest
    /\ UNCHANGED <<fs, inflight, budget, rt, stored>>
    /\ UNCHANGED Config

Next ==
    \/ \E req \in UploadRequests : Upload(req)
    \/ \E req \in ReadRequests : ReadFile(req)
    \/ \E req \in ListRequests : ListFiles(req)
    \/ \E req \in OptionsRequests : Preflight(req)
    \/ \E req \in OtherRequests : Fallback(req)
    \/ Observe

Spec == Init /\ [][Next]_vars

----------------------------------------------------------------------------
(* Requests whose handlers interleave at their awaits *)

RaceRequests ==
    {req \in Requests :
        \/ /\ req.route = "upload"
           /\ req.body # "ok"
              \/ /\ req.filename = Str(NameA)
                 /\ req.dir = Undef
                 /\ req.content \in {Str(<<233>>), Str(<<55357>>)}
        \/ req.route = "read" /\ req.body = "ok" /\ req.path = Str(NameA)
        \/ req.route = "list" /\ req.body = "ok"}

RaceInit ==
    /\ srv \in Servers
    /\ REQ_TOKEN \in Tokens
    /\ fs = InitFs
    /\ inflight = EmptyBag
    /\ last = NoRequest
    /\ budget = MaxAdmitted
    /\ rt = NoUpload
    /\ stored = NoUploads
    /\ gp = <<>>
    /\ gres = "unset"
    /\ boot = Serving

\* the documents that successful uploads have written
Documents == {t \in stored.targets : EndsWith(t, EXT)}

\* a list request remembers the documents that were stored when it arrived
\* the targets of the uploads that have started and not yet responded
Uploading == {r.targetPath : r \in {u \in Suspended : u.route = "upload"}}

Arrived(r) ==
    IF r.route = "list" THEN r @@ [known |-> Documents, uploading |-> Uploading]
    ELSE r

\* a request passes its synchronous part and suspends at its first await
Suspend(req) ==
    /\ SyncOf[srv, REQ_TOKEN, req] = Pass
    /\ budget > 0 /\ budget' = budget - 1
    /\ inflight' = inflight (+) SetToBag({Arrived(LocalsOf[REQ_TOKEN, req])})
    /\ UNCHANGED <<fs, last, rt, stored>>

\* a request arrives and its handler runs up to its response or first await
Receive(req) ==
    /\ boot.listening /\ last = NoRequest
    /\ (Answered(req) /\ UNCHANGED inflight) \/ Suspend(req)
    /\ UNCHANGED Config

\* what the step s of the suspended request r does to the record of the
\* last upload: an open truncates what was written, a write starts a new
\* record, the response of the upload completes it
RecordStep(r, s) ==
    IF r.route # "upload" THEN rt
    ELSE IF r.pc = "open" /\ ~s.fin
    THEN IF rt.valid /\ rt.targetPath = r.targetPath THEN NoUpload ELSE rt
    ELSE IF r.pc = "write"
    THEN [valid |-> TRUE, done |-> FALSE, targetPath |-> r.targetPath, req |-> Key(r)]
    ELSE IF r.pc = "written" /\ rt.valid /\ rt.req = Key(r) /\ rt.targetPath = r.targetPath
    THEN [rt EXCEPT !.done = TRUE]
    ELSE rt

Resume(r, s) ==
    /\ fs' = s.f
    /\ inflight' = IF s.fin THEN inflight (-) SetToBag({r}) ELSE Swap(inflight, r, s.r)
    /\ last' = IF s.fin THEN Sent(srv, s.r) ELSE NoRequest
    /\ rt' = RecordStep(r, s)
    /\ stored' = IF s.fin /\ r.route = "upload" /\ s.r.status = 200
                 THEN [targets |-> stored.targets \cup {r.targetPath}]
                 ELSE stored

\* the event loop resumes a suspended handler up to its next await
Advance(r, e) ==
    /\ last = NoRequest
    /\ r \in Suspended /\ e \in Choices(r)
    /\ Resume(r, Step(fs, r, e))
    /\ UNCHANGED budget
    /\ UNCHANGED Config

RaceNext ==
    \/ \E req \in RaceRequests : Receive(req)
    \/ \E r \in Suspended : \E e \in Choices(r) : Advance(r, e)
    \/ Observe

SpecRace == RaceInit /\ [][RaceNext]_vars

\* the same with uploads to a second target, in a directory that the upload
\* creates below the root
WalkRequests ==
    RaceRequests \cup
        {req \in UploadRequests :
            /\ req.body = "ok"
            /\ req.filename = Str(NameA)
            /\ req.dir = Str(<<"d", "/", "e">>)
            /\ req.content = Str(<<233>>)}

WalkNext ==
    \/ \E req \in WalkRequests : Receive(req)
    \/ \E r \in Suspended : \E e \in Choices(r) : Advance(r, e)
    \/ Observe

SpecWalk == RaceInit /\ [][WalkNext]_vars

----------------------------------------------------------------------------
(* Startup of the unified server: main() up to app.listen, the build step   *)
(* that spawnSync runs, and clients that try to connect meanwhile           *)

\* String.prototype.toLowerCase on the letters the inputs use
LowerChar(c) ==
    IF c = "T" THEN "t" ELSE IF c = "R" THEN "r"
    ELSE IF c = "U" THEN "u" ELSE IF c = "E" THEN "e" ELSE c

toLowerCase(s) == [i \in 1..Len(s) |-> LowerChar(s[i])]

\* String(process.env.FORCE_BUILD || '').toLowerCase() === 'true'
FORCE_BUILD(env) == toLowerCase(JsString(OrEmpty(env))) = <<"t", "r", "u", "e">>

\* a build step that runs only when it is forced and the index is absent
needBuildBoth(env, index) == FORCE_BUILD(env) /\ ~index

\* const needBuild = FORCE_BUILD || !fs.existsSync(INDEX_HTML)
needBuild(env, index) == FORCE_BUILD(env) \/ ~index

\* a main() that listens before it builds
mainListenFirst == <<"ensureDirSync", "listen", "buildFrontendIfNeeded">>

\* the calls of main() in their order
mainCalls == <<"ensureDirSync", "buildFrontendIfNeeded", "listen">>

\* values of the FORCE_BUILD environment variable
EnvValues ==
    {Undef, Str(<<>>), Str(<<"t", "r", "u", "e">>), Str(<<"T", "R", "U", "E">>),
     Str(<<"T", "r", "u", "e">>), Str(<<"f", "a", "l", "s", "e">>), Str(<<"1">>)}

\* res.status of spawnSync: an exit code, or null for a child that was not
\* spawned or was killed by a signal
Null == -1
BuildStatuses == {0, 1, 2, Null}

\* no spawnSync has returned yet
NoStatus == -2

\* process.exit(res.status): a null status leaves the exit code at 0
exitCodeOfStatus(status) == IF status = Null THEN 0 ELSE status

\* process.exit(res.status || 1)
exitCode(status) == IF status = Null \/ status = 0 THEN 1 ELSE status

Alive == boot.exit = -1
At(call) == Alive /\ boot.step <= Len(mainCalls) /\ mainCalls[boot.step] = call

StartInit ==
    /\ srv = "unified"
    /\ REQ_TOKEN \in Tokens
    /\ inflight = EmptyBag
    /\ last = NoRequest
    /\ budget = 0
    /\ rt = NoUpload
    /\ stored = NoUploads
    /\ gp = <<>>
    /\ gres = "unset"
    /\ \E env \in EnvValues, index \in BOOLEAN, f \in {EmptyFs, RootFs} :
         /\ fs = IF index THEN Built(f) ELSE f
         /\ boot = [step |-> 1, building |-> FALSE, builds |-> 0, env |-> env,
                 index |-> index, status |-> NoStatus, exit |-> -1,
                 listening |-> FALSE,
                 served |-> 0, refused |-> 0]

StartFrame == UNCHANGED <<srv, REQ_TOKEN, inflight, last, budget, rt, stored, gp, gres>>

\* ensureDirSync(BASE_DIR)
EnsureDirSync ==
    /\ At("ensureDirSync")
    /\ fs' = IF IsDir(fs, BASE_DIR) \/ IsFile(fs, BASE_DIR) THEN fs ELSE Mkdir(fs, BASE_DIR)
    /\ boot' = [boot EXCEPT !.step = @ + 1]
    /\ StartFrame

\* buildFrontendIfNeeded() returns at once: the frontend is already built
BuildSkipped ==
    /\ At("buildFrontendIfNeeded") /\ ~boot.building
    /\ ~needBuild(boot.env, IsFile(fs, INDEX_HTML))
    /\ boot' = [boot EXCEPT !.step = @ + 1]
    /\ UNCHANGED fs /\ StartFrame

\* buildFrontendIfNeeded() calls spawnSync, which blocks the process
BuildStarted ==
    /\ At("buildFrontendIfNeeded") /\ ~boot.building
    /\ needBuild(boot.env, IsFile(fs, INDEX_HTML))
    /\ boot' = [boot EXCEPT !.building = TRUE, !.builds = @ + 1]
    /\ UNCHANGED fs /\ StartFrame

\* spawnSync returns: process.exit(res.status || 1) unless the status is 0;
\* what the build left of the index is the build's affair
BuildEnded(status, index) ==
    /\ At("buildFrontendIfNeeded") /\ boot.building
    /\ boot' = IF status # 0
               THEN [boot EXCEPT !.building = FALSE, !.index = index,
                                 !.status = status, !.exit = exitCode(status),
                                 !.listening = FALSE]
               ELSE [boot EXCEPT !.building = FALSE, !.index = index,
                                 !.status = status, !.step = @ + 1]
    /\ fs' = IF index THEN Built(fs) ELSE Unbuilt(fs)
    /\ StartFrame

\* app.listen(PORT, ..)
Listen ==
    /\ At("listen")
    /\ boot' = [boot EXCEPT !.listening = TRUE, !.step = @ + 1]
    /\ UNCHANGED fs /\ StartFrame

\* a client connects: its request is handled if the port is open, and the
\* connection is refused if it is not
Connect ==
    /\ boot.served + boot.refused < MaxConns
    /\ boot' = IF boot.listening
               THEN [boot EXCEPT !.served = @ + 1]
               ELSE [boot EXCEPT !.refused = @ + 1]
    /\ UNCHANGED fs /\ StartFrame

StartNext ==
    \/ EnsureDirSync
    \/ BuildSkipped
    \/ BuildStarted
    \/ \E status \in BuildStatuses, index \in BOOLEAN : BuildEnded(status, index)
    \/ Listen
    \/ Connect

SpecStart == StartInit /\ [][StartNext]_vars

----------------------------------------------------------------------------
(* A storage root that holds documents before the server starts: the list  *)
(* route walks whatever tree it finds, and the client opens the entries    *)
(* the list returned                                                        *)

\* documents put into the storage root by other means than the upload route
Planted ==
    {BASE_DIR \o <<"/">> \o NameA,
     BASE_DIR \o <<"/", ".", ".">> \o NameA,
     BASE_DIR \o <<"/", "d", "/">> \o NameA,
     BASE_DIR \o <<"/", "d", "/", "e", "/">> \o NameA}

\* symbolic links found in the storage root: none, a link of the root to
\* the root itself, a link of a subdirectory to the root (each closes a
\* cycle for a walk that follows links), and a link to a document
Linked ==
    {<<>>,
     (BASE_DIR \o <<"/", "l">>) :> BASE_DIR,
     (BASE_DIR \o <<"/", "d", "/", "l">>) :> BASE_DIR,
     (BASE_DIR \o <<"/", "l">> \o EXT) :> (BASE_DIR \o <<"/">> \o NameA)}

\* the filesystem f with the documents S, each holding the bytes of "{}",
\* and the links L
Plant(f, S, L) ==
    [dirs |-> f.dirs \cup UNION {PathsTo(AbsSegs(dirname(q))) : q \in S \cup DOMAIN L},
     files |-> [q \in DOMAIN f.files \cup S |->
                   IF q \in S THEN <<123, 125>> ELSE f.files[q]],
     links |-> L]

TreeInit ==
    /\ srv \in Servers
    /\ REQ_TOKEN \in Tokens
    /\ \E S \in SUBSET Planted : \E L \in Linked : fs = Plant(InitFs, S, L)
    /\ inflight = EmptyBag
    /\ last = NoRequest
    /\ budget = MaxLists
    /\ rt = NoUpload
    /\ stored = NoUploads
    /\ gp = <<>>
    /\ gres = "unset"
    /\ boot = Serving

\* handleOpenFile of the client: GET /file?path=<item.relativePath> for an
\* item of the list response, with the header that the list was sent with,
\* no other request running
handleOpenFile(item) ==
    /\ last # NoRequest /\ last.route = "list" /\ last.status = 200
    /\ inflight = EmptyBag
    /\ \E i \in 1..Len(last.files) : item = last.files[i]
    /\ \E auth \in AuthHeaders :
          /\ Exact(REQ_TOKEN, auth) = last.exact
          /\ LET req == [route |-> "read", auth |-> auth, body |-> "ok",
                         path |-> Str(item.relativePath)]
                 resp == Sync(srv, REQ_TOKEN, req)
             IN  last' = [item |-> item]
                         @@ IF resp = Pass
                            THEN Sent(srv, Run(fs, Locals(REQ_TOKEN, req)).r)
                            ELSE Sent(srv, resp) @@ SyncView(REQ_TOKEN, req)
    /\ UNCHANGED <<fs, inflight, budget, rt, stored>>
    /\ UNCHANGED Config

TreeNext ==
    \/ \E req \in ListRequests : Receive(req)
    \/ \E r \in Suspended : \E e \in Choices(r) : Advance(r, e)
    \/ \E item \in {last.files[i] : i \in
                       IF "files" \in DOMAIN last THEN 1..Len(last.files) ELSE {}} :
          handleOpenFile(item)
    \/ Observe

SpecTree == TreeInit /\ [][TreeNext]_vars

\* a handler can be resumed: every suspended handler has a next step, and
\* the steps of this model are taken while no response is being observed
CanResume == last = NoRequest /\ inflight # EmptyBag

\* a step that resumes a suspended handler: of the steps of TreeNext, the
\* ones that change the suspended requests and admit no new one
Resumed == CanResume /\ inflight' # inflight /\ budget' = budget

\* the event loop runs the continuation of every filesystem call that has
\* returned, however many requests arrive meanwhile: strong fairness of
\* Resumed, written with CanResume for ENABLED <<Resumed>>_vars; and a
\* response that was written leaves the server
SpecTreeFair ==
    /\ SpecTree
    /\ (<>[](~CanResume) \/ []<>(<<Resumed>>_vars))
    /\ WF_vars(Observe)

----------------------------------------------------------------------------
(* Properties of the serving process *)

Responded == last # NoRequest

\* a response of one of the three API routes
API(l) == l.route \in {"upload", "list", "read"}

\* the request of the response passed the synchronous part
Admitted == Responded /\ "pc" \in DOMAIN last

\* the candidate path of the request of the response, <<>> if none was built
CandOf(l) ==
    IF "cand" \in DOMAIN l THEN l.cand
    ELSE IF l.route = "upload" THEN l.targetPath
    ELSE IF l.route = "read" THEN l.abs
    ELSE <<>>

\* a filesystem call on the storage root (mkdir only) or strictly below it
InRoot(c) ==
    \/ IsStrictDescendant(BASE_DIR, c.path)
    \/ c.op = "mkdir" /\ c.path = BASE_DIR

\* a path of the filesystem, which holds absolute normalized paths, lies
\* strictly below the storage root
Below(p) == StartsWith(p, BASE_DIR \o <<SLASH>>) /\ Len(p) > Len(BASE_DIR) + 1

Outside(f) ==
    [dirs |-> {d \in f.dirs : ~Below(d)},
     files |-> [p \in {q \in DOMAIN f.files : ~Below(q)} |-> f.files[p]]]

\* C1: every path that an upload or a read writes to, creates a directory at
\* or reads from is the storage root (mkdir only) or strictly below it, and
\* nothing outside the storage root is created or modified.
Containment ==
    /\ Responded /\ last.route \in {"upload", "read"}
         => \A i \in 1..Len(last.io) : InRoot(last.io[i])
    /\ \A r \in Suspended :
         r.route \in {"upload", "read"} => \A i \in 1..Len(r.io) : InRoot(r.io[i])
    /\ Outside(fs) = Outside(IF boot.index THEN InitFs ELSE Unbuilt(InitFs))

\* an upload that names directories above the root was stored, below the root
ContainmentWitness ==
    /\ Admitted /\ last.route = "upload" /\ last.status = 200
    /\ last.filename = Str(Passwd)
    /\ Len(last.io) = 3

\* C3: with a token configured, a request whose Authorization header is not
\* exactly "Bearer <token>" never reaches an await, has made no filesystem
\* call when it is answered, and every change of the filesystem is a step of
\* a suspended request that carried the exact header, whatever other
\* requests are in flight.
FailClosed ==
    /\ [](REQ_TOKEN # ""
            => /\ \A r \in Suspended : r.exact
               /\ (Responded /\ ~last.exact) => last.io = <<>>)
    /\ [][(REQ_TOKEN # "" /\ fs' # fs)
            => \E r \in Suspended : r.exact /\ \E e \in Choices(r) : fs' = Step(fs, r, e).f]_vars

\* a request with a wrong token was refused while an authorized upload was
\* between its open and its write
FailClosedWitness ==
    /\ REQ_TOKEN # "" /\ Responded /\ ~last.exact
    /\ last.status = 401 /\ last.route = "upload"
    /\ \E r \in Suspended : r.route = "upload" /\ r.pc = "write"

\* the force-rebuild flag as the deployment guide sets it: true in any case
Forced(env) ==
    env \in {Str(<<"t", "r", "u", "e">>), Str(<<"T", "R", "U", "E">>),
             Str(<<"T", "r", "u", "e">>)}

\* buildFrontendIfNeeded() has decided
Decided == boot.building \/ boot.builds > 0 \/ boot.step > 2 \/ boot.exit # -1

\* C9: the build step is invoked exactly when the force-rebuild flag is set
\* or the entry document is absent at startup; with the entry document
\* present and the flag unset no build is ever invoked and main() goes on
\* to listen.
BuildDecision ==
    /\ [](Decided /\ boot.builds = 0 => ~Forced(boot.env) /\ boot.index)
    /\ [][boot'.builds # boot.builds
            => /\ Forced(boot.env) \/ ~boot.index
               /\ boot.builds = 0 /\ boot'.building]_vars
    /\ [][(boot.step = 2 /\ ~boot.building /\ ~Forced(boot.env) /\ boot.index
             /\ boot'.step # boot.step)
            => boot'.builds = 0 /\ ~boot'.building /\ boot'.step = 3 /\ boot'.exit = -1]_vars

\* FORCE_BUILD=false and an index: the server listens without a build
BuildSkippedWitness ==
    /\ boot.listening /\ boot.builds = 0
    /\ boot.env = Str(<<"f", "a", "l", "s", "e">>) /\ boot.index
    /\ boot.served > 0

\* C10: the build step, when it runs, starts and ends before the server
\* listens; it is invoked at most once, never once the server listens, and
\* a request is handled only by a listening server that is not building.
BuildBeforeServe ==
    /\ [](/\ boot.builds <= 1
          /\ boot.building => ~boot.listening
          /\ boot.listening => boot.step > 2
          /\ boot.served > 0 => boot.listening)
    /\ [][/\ boot.listening => boot'.builds = boot.builds /\ ~boot'.building
          /\ boot'.served # boot.served => boot.listening /\ ~boot.building]_vars

\* a build ran and ended, then the server listened and handled a request;
\* a connection tried before the server listened was refused
BuildBeforeServeWitness ==
    /\ boot.builds = 1 /\ ~boot.building /\ boot.listening
    /\ boot.served = 1 /\ boot.refused = 1

\* C11: when the build step ends with a status other than 0 (an exit code
\* that is not 0, or none because the child was not spawned or was killed),
\* the process exits with a code that is not 0, and it never listens or
\* handles a request, then or later.
BuildFailureFatal ==
    /\ [](boot.status \notin {NoStatus, 0}
            => /\ boot.exit \notin {-1, 0}
               /\ ~boot.listening /\ boot.served = 0)
    /\ [][boot.exit # -1
            => /\ boot'.exit = boot.exit /\ ~boot'.listening
               /\ boot'.served = boot.served /\ boot'.builds = boot.builds]_vars

\* the build was killed by a signal: exit code 1, and a later connection
\* was refused
BuildFailureWitness ==
    /\ boot.status = Null /\ boot.exit = 1
    /\ ~boot.listening /\ boot.refused > 0

\* C12 as claimed: whenever the server listens the entry document exists,
\* also after a build that ran and exited with status 0.
ReadyWhenListening == boot.listening => boot.index

\* no upload to the path of the last completed write is in flight
Settled ==
    /\ rt.valid
    /\ \A r \in Suspended : ~(r.route = "upload" /\ r.targetPath = rt.targetPath)

\* C13 as claimed: once the concurrent uploads to one target path have all
\* completed, the stored content is exactly the content of the upload whose
\* write completed last, never a mixture.
LastWriterWins ==
    Settled => fs.files[rt.targetPath] = utf8Encode(JsString(rt.req.content))

\* every upload that reaches its write is answered 200, with no conflict
\* signal, whatever other uploads to the same path do meanwhile
ConcurrentUploadsSucceed ==
    (Responded /\ last.route = "upload" /\ Len(last.io) = 3)
        => last.status = 200 /\ "error" \notin DOMAIN last

\* C4 as claimed: with a token configured, a request without the exact
\* header is answered 401 whatever else it contains.
Always401 ==
    (REQ_TOKEN # "" /\ Responded /\ API(last) /\ ~last.exact) => last.status = 401

\* the request of the response reached the checks of its route
PastGate ==
    \/ Admitted
    \/ /\ Responded /\ "error" \in DOMAIN last
       /\ last.error \in {"filename required", "path required", "Invalid path"}

RECURSIVE WellFormed(_)
\* a string of UTF-16 code units without a lone surrogate
WellFormed(us) ==
    IF us = <<>> THEN TRUE
    ELSE IF IsHigh(us[1])
    THEN Len(us) >= 2 /\ IsLow(us[2]) /\ WellFormed(SubSeq(us, 3, Len(us)))
    ELSE ~IsLow(us[1]) /\ WellFormed(Tail(us))

\* the response is that of a read of <dir>/<basename(filename)> of the last
\* successful upload, whose bytes no later write has touched
ReadOfLastUpload ==
    /\ PastGate /\ last.route = "read"
    /\ rt.valid /\ rt.done
    /\ last.rel = ReadRel(Str(ReadBack(rt.req.filename, rt.req.dir)))

ReadGivesContent ==
    /\ last.status = 200
    /\ last.content = JsString(rt.req.content)

\* C5 as claimed: after a successful upload (filename, dir, content), a read
\* of <dir>/<basename(filename)> returns content, for any accepted dir and
\* any string content.
RoundTripAny == ReadOfLastUpload => ReadGivesContent

\* C5: after a successful upload (filename, dir, content) with a dir that is
\* not an absolute path and a content without lone surrogates, a read of
\* <dir>/<basename(filename)> with no other write to that path in between
\* returns 200 and exactly content.
RoundTrip ==
    (/\ ReadOfLastUpload
     /\ ~isAbsolute(JsString(rt.req.dir))
     /\ WellFormed(JsString(rt.req.content)))
        => ReadGivesContent

\* a two-byte character written into a nested directory came back
RoundTripWitness ==
    /\ ReadOfLastUpload /\ ReadGivesContent
    /\ rt.req.dir = Str(<<"d", "/", "e">>)
    /\ rt.req.content = Str(<<233>>)

RECURSIVE FinalSegment(_)
\* the part of a name after its last separator, trailing separators dropped
FinalSegment(name) ==
    IF name = <<>> THEN <<>>
    ELSE IF name[Len(name)] = SLASH
    THEN FinalSegment(SubSeq(name, 1, Len(name) - 1))
    ELSE IF \E i \in 1..Len(name) : name[i] = SLASH
    THEN LET i == CHOOSE j \in 1..Len(name) :
                      name[j] = SLASH /\ \A k \in (j + 1)..Len(name) : name[k] # SLASH
         IN  SubSeq(name, i + 1, Len(name))
    ELSE name

HasDirectories(name) == \E i \in 1..Len(name) : name[i] = SLASH

\* resolve(root, rel) is the root or a path that is not below it
Escapes(rel) ==
    ~IsStrictDescendant(BASE_DIR, resolve(<<BASE_DIR, rel>>))
    /\ resolve(<<BASE_DIR, rel>>) # BASE_DIR

\* C6: an upload whose filename contains directory components is stored
\* under the final segment of the filename directly in resolve(root, dir),
\* and a read whose path resolves outside the root is answered 400
\* "Invalid path" with no file content and no filesystem call.
TraversalRejected ==
    /\ (Admitted /\ last.route = "upload" /\ HasDirectories(JsString(last.filename))
          /\ FinalSegment(JsString(last.filename)) \notin {<<DOT>>, <<DOT, DOT>>})
         => /\ last.targetPath =
                 resolve(<<BASE_DIR, JsString(last.dir)>>)
                     \o <<SLASH>> \o FinalSegment(JsString(last.filename))
            /\ \A i \in 1..Len(last.io) :
                 last.io[i].op \in {"open", "write"} => last.io[i].path = last.targetPath
            /\ last.status = 200
                 => /\ IsFile(fs, last.targetPath)
                    /\ fs.files[last.targetPath] = utf8Encode(JsString(last.content))
    /\ (PastGate /\ last.route = "read" /\ last.rel # <<>> /\ Escapes(last.rel))
         => /\ last.status = 400 /\ last.error = "Invalid path"
            /\ "content" \notin DOMAIN last
            /\ last.io = <<>>

\* ../../etc/passwd was stored as d/e/passwd
TraversalStoredWitness ==
    /\ Admitted /\ last.route = "upload" /\ last.status = 200
    /\ last.filename = Str(Passwd) /\ last.dir = Str(<<"d", "/", "e">>)
    /\ last.targetPath = <<"/", "r", "/", "d", "/", "e", "/", "p", "a", "s", "s", "w", "d">>

\* C7: the containment check comes after the candidate path is built and
\* before any filesystem call: a request whose candidate fails it is
\* answered 400 "Invalid path" having made no filesystem call, and every
\* request that made one has a candidate that passes.
GuardBeforeIO ==
    /\ (PastGate /\ last.route \in {"upload", "read"}
          /\ CandOf(last) # <<>> /\ ~isPathInside(BASE_DIR, CandOf(last)))
         => /\ last.status = 400 /\ last.error = "Invalid path"
            /\ last.io = <<>>
    /\ (Responded /\ last.route \in {"upload", "read"} /\ last.io # <<>>)
         => isPathInside(BASE_DIR, CandOf(last))

\* an upload whose candidate is the parent of the root was refused
GuardBeforeIOWitness ==
    /\ Responded /\ last.route = "upload"
    /\ CandOf(last) = <<SLASH>>
    /\ last.status = 400 /\ last.error = "Invalid path"
    /\ stored.targets # {}

\* the directory of a path below the root, relative to the root
ParentInRoot(abs) ==
    LET rs == AbsSegs(BASE_DIR)
        cs == AbsSegs(abs)
    IN  JoinSegs(SubSeq(cs, Len(rs) + 1, Len(cs) - 1))

\* C8: after successful uploads of N documents (N distinct paths ending in
\* .drawnix) into the root and nested directories, a list returns exactly N
\* entries, one per document, with distinct relativePath values and each
\* dir equal to the directory of the document relative to the root, "" at
\* the root.
ListComplete ==
    (Admitted /\ last.route = "list" /\ last.status = 200)
        => /\ Len(last.files) = Cardinality(Documents)
           /\ \A i, j \in 1..Len(last.files) :
                last.files[i].relativePath = last.files[j].relativePath => i = j
           /\ {resolve(<<BASE_DIR, last.files[i].relativePath>>) :
                   i \in 1..Len(last.files)} = Documents
           /\ \A i \in 1..Len(last.files) :
                last.files[i].dir =
                    ParentInRoot(resolve(<<BASE_DIR, last.files[i].relativePath>>))

\* two documents, one at the root and one two directories down, were listed
ListCompleteWitness ==
    /\ Admitted /\ last.route = "list" /\ last.status = 200
    /\ Len(last.files) = 2
    /\ \E i, j \in 1..2 :
         last.files[i].dir = <<>> /\ last.files[j].dir = <<"d", "/", "e">>

\* C14 as claimed: every filesystem error raised while a write, a list or a
\* read executes, such as the target path being a directory, is answered
\* with status 500.
IOErrors500 ==
    /\ (Admitted /\ last.route \in {"upload", "list"} /\ last.status # 200)
         => last.status = 500
    /\ (Admitted /\ last.route = "read" /\ IsDir(fs, last.abs))
         => last.status = 500

\* C15: a read whose path passes the containment check and whose target is
\* not a readable file is answered 404 "Not Found" with no content, and a
\* read whose path is empty once its leading slashes are stripped is
\* answered 400 "path required".
ReadErrors ==
    /\ (Admitted /\ last.route = "read" /\ ~IsFile(fs, last.abs))
         => /\ last.status = 404 /\ last.error = "Not Found"
            /\ "content" \notin DOMAIN last
    /\ (PastGate /\ last.route = "read" /\ last.rel = <<>>)
         => last.status = 400 /\ last.error = "path required"

\* a read of a directory that an upload had created was answered 404
ReadErrorsWitness ==
    /\ Admitted /\ last.route = "read"
    /\ last.rel = <<"d">> /\ IsDir(fs, last.abs)
    /\ last.status = 404

\* C16 as claimed: every request to an API route that fails is answered,
\* and the body of the answer is the JSON object {ok: false, error}.
StructuredErrors ==
    (Responded /\ API(last) /\ last.status # 200)
        => last.status # 0 /\ last.json /\ "error" \in DOMAIN last

\* the request with the Authorization header of an authorized client
Authorized(req) == [req EXCEPT !.auth = Expected("tok")]

\* a response or a suspended request without the mark of its header
Unsigned(r) == [k \in DOMAIN r \ {"exact"} |-> r[k]]

Behind(out) == [f |-> out.f, r |-> Unsigned(out.r)]

\* the response to req and the filesystem after it, from the filesystem f
OutcomeOf(server, token, req, f) ==
    IF SyncOf[server, token, req] # Pass
    THEN [f |-> f, r |-> Unsigned(SyncOf[server, token, req])]
    ELSE Behind(Run(f, LocalsOf[token, req]))

\* C17: with no token configured no request is answered 401, and every
\* request, whatever its Authorization header, gets the response and has the
\* effect that the same request of an authorized client has on a server
\* with a token.
NoTokenNoOp ==
    /\ (REQ_TOKEN = "" /\ Responded) => last.status # 401
    /\ (REQ_TOKEN = "" /\ last = NoRequest)
         => \A req \in Requests :
              OutcomeOf(srv, "", req, fs) = OutcomeOf(srv, "tok", Authorized(req), fs)

\* with no token an upload without the header of any token was stored
NoTokenWitness ==
    /\ REQ_TOKEN = "" /\ Admitted /\ ~last.exact
    /\ last.route = "upload" /\ last.status = 200
    /\ IsFile(fs, last.targetPath)

\* C18: no step of an upload, a list or a read removes a file or a
\* directory, in any interleaving; a path that an upload has written stays a
\* file, a read of it is answered 200, and a list that arrives later has an
\* entry for it.
NoDeletion ==
    /\ [][DOMAIN fs.files \subseteq DOMAIN fs'.files /\ fs.dirs \subseteq fs'.dirs]_vars
    /\ [](/\ stored.targets \subseteq DOMAIN fs.files
          /\ (Admitted /\ last.route = "read" /\ last.abs \in stored.targets)
               => last.status = 200
          /\ (Admitted /\ last.route = "list")
               => /\ last.status = 200
                  /\ last.known \subseteq
                       {resolve(<<BASE_DIR, last.files[i].relativePath>>) :
                           i \in 1..Len(last.files)})

\* a list that arrived after an upload had stored a document has the
\* document, while another upload to the same path has truncated the file
\* and not yet written
NoDeletionWitness ==
    /\ Admitted /\ last.route = "list" /\ last.status = 200
    /\ last.known # {} /\ Len(last.files) = 1 /\ last.files[1].size = 0
    /\ \E r \in Suspended : r.route = "upload" /\ r.pc = "write"

\* C19 as claimed: a GET of a path that matches no API route and no file of
\* the asset directory is answered with the content of the entry document.
SpaFallback ==
    (Responded /\ last.route = "other" /\ last.method = "GET" /\ last.body = "ok")
        => /\ last.status = 200
           /\ IsFile(fs, INDEX_HTML)
           /\ last.content = fs.files[INDEX_HTML]

\* C20 as claimed: every response of an API route permits any origin and
\* the Authorization and Content-Type headers, and an OPTIONS request is
\* acknowledged as a CORS preflight.
CorsOnEveryResponse ==
    (Responded /\ (API(last) \/ last.route = "options"))
        => /\ last.status # 0
           /\ last.cors.origin = "*"
           /\ {"Authorization", "Content-Type"} \subseteq last.cors.headers
           /\ last.route = "options" => last.status = 200


\* the absolute paths of the entries of a list response
Listed(l) == {resolve(<<BASE_DIR, l.files[i].relativePath>>) : i \in 1..Len(l.files)}

\* C21: a read and a list see the storage root as it is at each of their
\* steps, uploads in progress included: a read answers with the bytes the
\* file has at that step, and when these are none, an upload of the file has
\* truncated it and not yet written; the documents a list omits are ones
\* that were not yet stored when the list arrived.
NotIsolated ==
    /\ (Admitted /\ last.route = "read" /\ last.status = 200)
         => /\ last.content = utf8Decode(fs.files[last.abs])
            /\ last.content = <<>>
                 => \E r \in Suspended :
                        r.route = "upload" /\ r.pc = "write" /\ r.targetPath = last.abs
    /\ (Admitted /\ last.route = "list" /\ last.status = 200)
         => /\ Listed(last) \subseteq DOMAIN fs.files
            /\ (Documents \ Listed(last)) \cap last.known = {}

\* a list has an entry of size 0 for a document whose upload has truncated
\* the file and not yet written its bytes, and omits a document whose upload
\* had started when the list arrived and has responded before the list did
NotIsolatedWitness ==
    /\ Admitted /\ last.route = "list" /\ last.status = 200
    /\ \E i \in 1..Len(last.files) : \E r \in Suspended :
          /\ r.route = "upload" /\ r.pc = "write"
          /\ r.targetPath = resolve(<<BASE_DIR, last.files[i].relativePath>>)
          /\ last.files[i].size = 0
          /\ Len(utf8Encode(JsString(r.content))) > 0
    /\ \E t \in last.uploading :
          /\ t \in Documents /\ t \notin Uploading
          /\ t \notin last.known /\ t \notin Listed(last)

\* a read is answered 200 with no content while an upload of the file, whose
\* content is not empty, is between its open and its write
ReadMidUpload ==
    /\ Admitted /\ last.route = "read" /\ last.status = 200
    /\ last.content = <<>>
    /\ \E r \in Suspended :
          /\ r.route = "upload" /\ r.pc = "write" /\ r.targetPath = last.abs
          /\ JsString(r.content) # <<>>


\* the checks of an upload in the order authorization, body, filename,
\* containment, write: the response l is the one of the first check that
\* fails, and no later check has run
FirstFailing(l) ==
    /\ (REQ_TOKEN # "" /\ ~l.exact)
         => l.status = 401 /\ l.error = "Unauthorized" /\ l.io = <<>>
    /\ l.status = 401 => (REQ_TOKEN # "" /\ ~l.exact)
    /\ ("body" \in DOMAIN l /\ l.body # "ok")
         => l.status \in {400, 401, 413, 0} /\ l.io = <<>> /\ CandOf(l) = <<>>
    /\ ("error" \in DOMAIN l /\ l.error = "filename required")
         => l.status = 400 /\ l.body = "ok" /\ CandOf(l) = <<>> /\ l.io = <<>>
    /\ ("error" \in DOMAIN l /\ l.error = "Invalid path")
         => /\ l.status = 400 /\ l.body = "ok" /\ l.io = <<>>
            /\ CandOf(l) # <<>> /\ ~isPathInside(BASE_DIR, CandOf(l))
    /\ l.status \in {500, 200}
         => /\ "pc" \in DOMAIN l /\ isPathInside(BASE_DIR, CandOf(l))
            /\ l.io # <<>>
            /\ l.status = 500 <=> ("error" \in DOMAIN l /\ l.error = "Write failed")

\* C22 as claimed: the response of every upload is the one of the first
\* failing check in the order authorization, body parsing, filename
\* presence, containment, filesystem write, and no check after it has run.
UploadPrecedence ==
    (Responded /\ last.route = "upload") => FirstFailing(last)

\* the same on the mock server alone, whose handler checks the token before
\* it reads the body
MockUploadPrecedence ==
    (srv = "mock" /\ Responded /\ last.route = "upload") => FirstFailing(last)


RefusedUploadNoEffect ==
    [][(last' # NoRequest /\ last'.route = "upload"
          /\ last'.status \in {400, 401})
         => fs' = fs /\ last'.io = <<>>]_vars


\* C24 as claimed: for every entry that a list returned, a read whose path
\* is the entry's relativePath, with no change in between, is answered 200
\* with the entry's name and the content of the file of the entry.
ListThenRead ==
    (Responded /\ last.route = "read" /\ "item" \in DOMAIN last)
        => /\ last.status = 200
           /\ last.name = last.item.name
           /\ last.relativePath = last.item.relativePath
           /\ last.content =
                 utf8Decode(fs.files[resolve(<<BASE_DIR, last.item.relativePath>>)])

\* the same for the entries whose relativePath does not begin with two dots
ListThenReadPlain ==
    (Responded /\ last.route = "read" /\ "item" \in DOMAIN last
       /\ ~StartsWith(last.item.relativePath, <<DOT, DOT>>))
        => /\ last.status = 200
           /\ last.name = last.item.name
           /\ last.content =
                 utf8Decode(fs.files[resolve(<<BASE_DIR, last.item.relativePath>>)])


\* the status and body of a response and the filesystem after it, without
\* the Access-Control headers
Wire(out) == [f |-> out.f, r |-> [k \in DOMAIN out.r \ {"cors"} |-> out.r[k]]]

\* C25 as claimed: from the same storage contents and with the same token,
\* every POST /upload, GET /files and GET /file request, malformed bodies
\* included, gets the same status and the same JSON body from the unified
\* server and from the mock server, and leaves the same storage contents.
SameAsMock ==
    last = NoRequest
        => \A req \in Requests :
             Wire(OutcomeOf("unified", REQ_TOKEN, req, fs))
                 = Wire(OutcomeOf("mock", REQ_TOKEN, req, fs))

\* the same for the requests whose body is absent or parses as JSON within
\* the size limit
SameAsMockParsed ==
    last = NoRequest
        => \A req \in {q \in Requests : q.body = "ok"} :
             Wire(OutcomeOf("unified", REQ_TOKEN, req, fs))
                 = Wire(OutcomeOf("mock", REQ_TOKEN, req, fs))


\* a link whose target is the directory that holds it or an ancestor of it:
\* a walk that followed the link would come back to where it is
Cyclic(f) ==
    \E q \in DOMAIN f.links :
        f.links[q] = dirname(q) \/ IsStrictDescendant(f.links[q], dirname(q))

\* C26, amended: the list descends into every directory with no depth limit
\* and follows no symbolic link; every directory it reads is a directory of
\* the tree itself, no entry of its response is a link, and on every tree,
\* with or without a cycle of links, a list that has started produces its
\* response.
ListTerminates ==
    /\ [](\A r \in Suspended : r.route = "list" =>
             /\ \A i \in 1..Len(r.stack) : r.stack[i].dir \in fs.dirs
             /\ Len(r.stack) <= Cardinality(fs.dirs))
    /\ []((Admitted /\ last.route = "list") =>
             /\ last.status = 200
             /\ \A i \in 1..Len(last.io) : last.io[i].path \notin DOMAIN fs.links
             /\ Listed(last) \subseteq DOMAIN fs.files)
    /\ (inflight # EmptyBag) ~> (Admitted /\ last.route = "list")

\* a list of a root that holds a link to the root itself, a document and a
\* document in a subdirectory is answered with the two documents
ListTerminatesWitness ==
    /\ Admitted /\ last.route = "list" /\ last.status = 200
    /\ Cyclic(fs)
    /\ Len(last.files) = 2
    /\ \E i \in 1..2 : last.files[i].dir # <<>>

\* C26 as claimed: on a storage tree with a cycle of symbolic links the list
\* recurses without bound; the walk reaches every entry of every directory
\* it reads, so no list of such a tree gets a response.
CycleNeverAnswered ==
    (Admitted /\ last.route = "list") => ~Cyclic(fs)

----------------------------------------------------------------------------
(* Path guard study: isPathInside applied to bounded candidate paths *)

GuardSegs == {<<"r">>, <<"a">>, <<DOT>>, <<DOT, DOT>>, <<DOT, DOT, "x">>}

GuardPrefixes == {<<>>, <<SLASH>>}

GuardCandidates ==
    {pre \o JoinSegs(segs) :
        pre \in GuardPrefixes,
        segs \in UNION {[1..n -> GuardSegs] : n \in 0..MaxSegs}}

GuardInit ==
    /\ gp \in GuardCandidates
    /\ gres = "unset"
    /\ srv = "unified"
    /\ REQ_TOKEN = ""
    /\ fs = EmptyFs
    /\ inflight = EmptyBag
    /\ last = NoRequest
    /\ budget = 0
    /\ rt = NoUpload
    /\ stored = NoUploads
    /\ boot = Serving

GuardCheck ==
    /\ gres = "unset"
    /\ gres' = IF isPathInside(BASE_DIR, gp) THEN "true" ELSE "false"
    /\ UNCHANGED <<srv, REQ_TOKEN, fs, inflight, last, budget, rt, stored, gp, boot>>

GuardNext == GuardCheck

SpecGuard == GuardInit /\ [][GuardNext]_vars

\* C2: isPathInside(root, p) is true exactly when p, made absolute and
\* normalized, is a strict descendant of root (false for the root itself,
\* true for root/..name).
GuardIffStrictDescendant ==
    gres # "unset" => (gres = "true" <=> IsStrictDescendant(BASE_DIR, gp))

\* the guard never accepts a path that is not a strict descendant
GuardSound ==
    gres = "true" => IsStrictDescendant(BASE_DIR, gp)

====
